---- MODULE Spec2Model ----
(***************************************************************************)
(* Model of template_extraction.py: the Relationship between two tokens of *)
(* a dependency parse, the pattern generalised from it, the matcher that   *)
(* counts a pattern's occurrences in a sentence, and the corpus scan.      *)
(*                                                                         *)
(* A parsed document is a set of tokens 1..n with a head function (the     *)
(* root of a tree is its own head, as in spaCy) and the labels pos_, dep_, *)
(* lemma_, lower_ of each token.                                           *)
(***************************************************************************)
EXTENDS Integers, Sequences, FiniteSets, TLC

VARIABLES
    tokens,         \* the tokens of the parsed document, 1..n
    head,           \* head[t]: the syntactic parent of t; a root is its own head
    pos_,           \* token.pos_
    dep_,           \* token.dep_
    lemma_,         \* token.lemma_
    lower_,         \* token.lower_, a sequence of characters
    sents,          \* doc.sents: the sentences, each a sequence of tokens
    rel,            \* the outcome of the last Relationship(token1, token2)
    rel_sentence,   \* the parse the Relationship was built from
    pattern,        \* the pattern last extracted or given to the matcher
    matches,        \* the result of search_sentence_for_pattern
    filenames,      \* the files the corpus scan found
    file_idx,       \* how many of them the scan has read
    relationships,  \* the scan's result list
    pc              \* where the program is

vars == <<tokens, head, pos_, dep_, lemma_, lower_, sents, rel, rel_sentence,
          pattern, matches, filenames, file_idx, relationships, pc>>

-----------------------------------------------------------------------------
(* Bounds *)

MaxNodes == 4
MaxTreeNodes == 4
MaxBranchLen == 2
MaxFiles == 2
MaxDocTokens == 2

\* what a variable holds before the program has set it
NoRel == [token1 |-> 0, token2 |-> 0, status |-> "none", message |-> "",
          common_ancestors |-> <<>>, branch1 |-> <<>>, branch2 |-> <<>>]
NoParse == [tokens |-> {}, head |-> <<>>, pos_ |-> <<>>, dep_ |-> <<>>,
            lemma_ |-> <<>>]
NoPattern == [common_ancestor |-> [pos |-> "", lemma |-> ""],
              branch1 |-> <<>>, branch2 |-> <<>>]

-----------------------------------------------------------------------------
(* Python lists *)

Reverse(s) == [i \in 1..Len(s) |-> s[Len(s) + 1 - i]]

Contains(s, x) == \E i \in 1..Len(s) : s[i] = x

RECURSIVE Concat(_)
Concat(ss) == IF ss = <<>> THEN <<>> ELSE Head(ss) \o Concat(Tail(ss))

RECURSIVE Sum(_)
Sum(s) == IF s = <<>> THEN 0 ELSE Head(s) + Sum(Tail(s))

-----------------------------------------------------------------------------
(* The parse tree, as the code reads it *)

\* token.ancestors: the head, the head's head, ... up to the root
RECURSIVE ancestors(_)
ancestors(t) == IF head[t] = t THEN <<>> ELSE <<head[t]>> \o ancestors(head[t])

\* node.children: the tokens whose head is node, in document order
RECURSIVE children_from(_, _)
children_from(node, t) ==
    IF t \notin tokens THEN <<>>
    ELSE (IF head[t] = node /\ t # node THEN <<t>> ELSE <<>>)
         \o children_from(node, t + 1)

children(node) == children_from(node, 1)

-----------------------------------------------------------------------------
(* Relationship *)

\* chain = [token] + list(token.ancestors)
chain(t) == <<t>> \o ancestors(t)

Unbound == 0

\* the loop that finds the first token of chain1 that is in chain2; i1 stays
\* unbound when there is none (positions are 1-based here, 0-based in Python)
first_common_mut_last(chain1, chain2) ==
    IF \E i \in 1..Len(chain1) : Contains(chain2, chain1[i])
    THEN CHOOSE i \in 1..Len(chain1) :
            /\ Contains(chain2, chain1[i])
            /\ \A j \in (i + 1)..Len(chain1) : ~Contains(chain2, chain1[j])
    ELSE Unbound

first_common(chain1, chain2) ==
    IF \E i \in 1..Len(chain1) : Contains(chain2, chain1[i])
    THEN CHOOSE i \in 1..Len(chain1) :
            /\ Contains(chain2, chain1[i])
            /\ \A j \in 1..(i - 1) : ~Contains(chain2, chain1[j])
    ELSE Unbound

\* list.index(x): the first position of x
index(s, x) == CHOOSE i \in 1..Len(s) : s[i] = x /\ \A j \in 1..(i - 1) : s[j] # x

\* chain[:i][::-1]
branch_mut_unreversed(ch, i) == SubSeq(ch, 1, i - 1)

branch(ch, i) == Reverse(SubSeq(ch, 1, i - 1))

\* chain[i:]
stem(ch, i) == SubSeq(ch, i, Len(ch))

Raised(type, message) ==
    [status |-> type, message |-> message,
     common_ancestors |-> <<>>, branch1 |-> <<>>, branch2 |-> <<>>]

\* the try/except around i2 = chain2.index(chain1[i1]): reading the unbound i1
\* raises UnboundLocalError, a NameError, which the handler turns into ValueError
locate_mut_uncaught(chain1, chain2, i1) ==
    IF i1 = Unbound THEN Raised("NameError", "i1")
    ELSE [status |-> "ok", i2 |-> index(chain2, chain1[i1])]

locate(chain1, chain2, i1) ==
    IF i1 = Unbound THEN Raised("ValueError", "unrelated")
    ELSE [status |-> "ok", i2 |-> index(chain2, chain1[i1])]

find_relationship_mut_i1(token1, token2) ==
    LET chain1 == chain(token1)
        chain2 == chain(token2)
        i1 == first_common(chain1, chain2)
        loc == locate(chain1, chain2, i1)
    IN  IF loc.status # "ok" THEN loc
        ELSE IF stem(chain1, i1) # stem(chain2, loc.i2)
             THEN Raised("ValueError", "ambiguity")
             ELSE [status |-> "ok", message |-> "",
                   common_ancestors |-> Reverse(stem(chain1, i1)),
                   branch1 |-> branch(chain1, i1),
                   branch2 |-> branch(chain2, i1)]

find_relationship(token1, token2) ==
    LET chain1 == chain(token1)
        chain2 == chain(token2)
        i1 == first_common(chain1, chain2)
        loc == locate(chain1, chain2, i1)
    IN  IF loc.status # "ok" THEN loc
        ELSE IF stem(chain1, i1) # stem(chain2, loc.i2)
             THEN Raised("ValueError", "ambiguity")
             ELSE [status |-> "ok", message |-> "",
                   common_ancestors |-> Reverse(stem(chain1, i1)),
                   branch1 |-> branch(chain1, i1),
                   branch2 |-> branch(chain2, loc.i2)]

\* Relationship.__init__: the object, or the exception that leaves none
Relationship(token1, token2) ==
    LET r == find_relationship(token1, token2)
    IN  [token1 |-> token1, token2 |-> token2, status |-> r.status,
         message |-> r.message, common_ancestors |-> r.common_ancestors,
         branch1 |-> r.branch1, branch2 |-> r.branch2]

\* common_ancestors[-1]
forking_node_mut_root(r) == r.common_ancestors[1]

forking_node(r) == r.common_ancestors[Len(r.common_ancestors)]

\* the sentence a Relationship is kept with
Parse == [tokens |-> tokens, head |-> head, pos_ |-> pos_, dep_ |-> dep_,
          lemma_ |-> lemma_]

\* Relationship.matching_pattern
Generalise(nodes) == [i \in 1..Len(nodes) |->
                        [pos |-> pos_[nodes[i]], dep |-> dep_[nodes[i]]]]

matching_pattern(r) ==
    [common_ancestor |-> [pos |-> pos_[forking_node(r)],
                          lemma |-> lemma_[forking_node(r)]],
     branch1 |-> Generalise(r.branch1),
     branch2 |-> Generalise(r.branch1)]

-----------------------------------------------------------------------------
(* The matcher *)

\* getattr(node, attribute + "_")
getattr(node, attribute) ==
    CASE attribute = "pos" -> pos_[node]
      [] attribute = "dep" -> dep_[node]
      [] attribute = "lemma" -> lemma_[node]

match_node_pattern(node, node_pattern) ==
    \A attribute \in DOMAIN node_pattern :
        getattr(node, attribute) = node_pattern[attribute]

RECURSIVE search_sentence_for_node(_, _)
search_sentence_for_node(node, node_pattern) ==
    LET kids == children(node)
    IN  (IF match_node_pattern(node, node_pattern) THEN <<node>> ELSE <<>>)
        \o Concat([i \in 1..Len(kids) |->
                      search_sentence_for_node(kids[i], node_pattern)])

RECURSIVE follow_branch_mut_first(_, _)
follow_branch_mut_first(node, br) ==
    IF br # <<>>
    THEN LET found == SelectSeq(children(node),
                                LAMBDA child : match_node_pattern(child, br[1]))
         IN  IF found = <<>> THEN 0
             ELSE follow_branch_mut_first(found[1], Tail(br))
    ELSE 1

RECURSIVE follow_branch_mut_dead_end(_, _)
follow_branch_mut_dead_end(node, br) ==
    IF br # <<>>
    THEN LET found == SelectSeq(children(node),
                                LAMBDA child : match_node_pattern(child, br[1]))
         IN  IF found = <<>> THEN 1
             ELSE Sum([i \in 1..Len(found) |->
                          follow_branch_mut_dead_end(found[i], Tail(br))])
    ELSE 1

RECURSIVE follow_branch(_, _)
follow_branch(node, br) ==
    IF br # <<>>
    THEN LET found == SelectSeq(children(node),
                                LAMBDA child : match_node_pattern(child, br[1]))
         IN  IF found = <<>> THEN 0
             ELSE Sum([i \in 1..Len(found) |-> follow_branch(found[i], Tail(br))])
    ELSE 1

\* sentence.root
sentence_root == CHOOSE t \in tokens : head[t] = t

search_sentence_for_pattern(root, pat) ==
    LET com_anc_matches == search_sentence_for_node(root, pat.common_ancestor)
    IN  Sum([i \in 1..Len(com_anc_matches) |->
                follow_branch(com_anc_matches[i], pat.branch1)
                    * follow_branch(com_anc_matches[i], pat.branch2)])

-----------------------------------------------------------------------------
(* Inputs: parses *)

\* head functions without cycles other than a root being its own head
RECURSIVE Climbs(_, _, _)
Climbs(h, t, k) == IF h[t] = t THEN TRUE
                   ELSE IF k = 0 THEN FALSE ELSE Climbs(h, h[t], k - 1)

Forests(n) == {h \in [1..n -> 1..n] : \A t \in 1..n : Climbs(h, t, n)}

\* labels that do not matter to the structure of a Relationship
PlainPos(h, n) == [t \in 1..n |-> IF h[t] = t THEN "VERB" ELSE "NOUN"]
PlainDep(h, n) == [t \in 1..n |-> IF h[t] = t THEN "ROOT" ELSE "nsubj"]
PlainLemma(h, n) == [t \in 1..n |-> IF h[t] = t THEN "raise" ELSE "startup"]
PlainLower(n) == [t \in 1..n |-> <<"a">>]

NoScan == /\ sents = <<>>
          /\ filenames = <<>>
          /\ file_idx = 0
          /\ relationships = <<>>

InitRel ==
    /\ \E n \in 1..MaxNodes :
          /\ tokens = 1..n
          /\ head \in Forests(n)
          /\ pos_ = PlainPos(head, n)
          /\ dep_ = PlainDep(head, n)
          /\ lemma_ = PlainLemma(head, n)
          /\ lower_ = PlainLower(n)
    /\ rel = NoRel
    /\ rel_sentence = NoParse
    /\ pattern = NoPattern
    /\ matches = 0
    /\ NoScan
    /\ pc = "parsed"

\* Relationship(token1, token2) on two tokens of the document
NewRelationship(token1, token2) ==
    /\ pc = "parsed"
    /\ pc' = "related"
    /\ rel' = Relationship(token1, token2)
    /\ rel_sentence' = Parse
    /\ pattern' = NoPattern
    /\ matches' = 0
    /\ UNCHANGED <<tokens, head, pos_, dep_, lemma_, lower_, sents, filenames,
                   file_idx, relationships>>

NextRel == \E token1 \in tokens, token2 \in tokens : NewRelationship(token1, token2)

SpecRel == InitRel /\ [][NextRel]_vars

-----------------------------------------------------------------------------
(* Extraction and matching on labelled sentences *)

RootLabels == {[pos |-> "VERB", dep |-> "ROOT", lemma |-> "raise"],
               [pos |-> "VERB", dep |-> "ROOT", lemma |-> "fall"]}

InnerLabels == {[pos |-> "NOUN", dep |-> "nsubj", lemma |-> "startup"],
                [pos |-> "NOUN", dep |-> "dobj", lemma |-> "startup"],
                [pos |-> "VERB", dep |-> "dobj", lemma |-> "raise"]}

\* one tree, numbered from its root level by level: every shape of tree
\* once, the order of the children being the order of their labels
Trees(n) == {h \in [1..n -> 1..n] :
                /\ h[1] = 1
                /\ \A t \in 2..n : h[t] < t
                /\ \A t \in 3..n : h[t - 1] <= h[t]}

Labellings(n) == {l \in [1..n -> RootLabels \cup InnerLabels] :
                     \A t \in 1..n : (t = 1) = (l[t] \in RootLabels)}

\* the patterns handed to the matcher from elsewhere
AncestorSpecs == {[pos |-> "VERB", lemma |-> "raise"],
                  [pos |-> "NOUN", lemma |-> "startup"]}

BranchSteps == {[pos |-> "NOUN", dep |-> "nsubj"], [pos |-> "NOUN", dep |-> "dobj"]}

BranchSpecs == UNION {[1..k -> BranchSteps] : k \in 0..MaxBranchLen}

Patterns == [common_ancestor : AncestorSpecs, branch1 : BranchSpecs,
             branch2 : BranchSpecs]

Sentence(n, h, l) ==
    /\ tokens = 1..n
    /\ head = h
    /\ pos_ = [t \in 1..n |-> l[t].pos]
    /\ dep_ = [t \in 1..n |-> l[t].dep]
    /\ lemma_ = [t \in 1..n |-> l[t].lemma]
    /\ lower_ = PlainLower(n)

InitMatch ==
    /\ \E n \in 1..MaxTreeNodes : \E h \in Trees(n) : \E l \in Labellings(n) :
          Sentence(n, h, l)
    /\ rel = NoRel
    /\ rel_sentence = NoParse
    /\ pattern = NoPattern
    /\ matches = 0
    /\ NoScan
    /\ pc = "parsed"

\* relationship.matching_pattern, as write_matching_patterns_to_file reads it
ExtractPattern ==
    /\ pc = "related"
    /\ rel.status = "ok"
    /\ pattern' = matching_pattern(rel)
    /\ pc' = "pattern"
    /\ UNCHANGED <<tokens, head, pos_, dep_, lemma_, lower_, sents, rel,
                   rel_sentence, matches, filenames, file_idx, relationships>>

\* search_sentence_for_pattern(sentence, pattern) with the extracted pattern
SearchExtracted ==
    /\ pc \in {"pattern", "reread"}
    /\ matches' = search_sentence_for_pattern(sentence_root, pattern)
    /\ pc' = "searched"
    /\ UNCHANGED <<tokens, head, pos_, dep_, lemma_, lower_, sents, rel,
                   rel_sentence, pattern, filenames, file_idx, relationships>>

\* search_sentence_for_pattern(sentence, p) with a pattern from elsewhere
SearchGiven(p) ==
    /\ pc = "parsed"
    /\ pattern' = p
    /\ matches' = search_sentence_for_pattern(sentence_root, p)
    /\ pc' = "searched"
    /\ UNCHANGED <<tokens, head, pos_, dep_, lemma_, lower_, sents, rel,
                   rel_sentence, filenames, file_idx, relationships>>

NextMatch ==
    \/ \E token1 \in tokens, token2 \in tokens : NewRelationship(token1, token2)
    \/ ExtractPattern
    \/ SearchExtracted
    \/ \E p \in Patterns : SearchGiven(p)

SpecMatch == InitMatch /\ [][NextMatch]_vars

\* the parser hands over another sentence while the pattern is kept
ReadSentence ==
    /\ pc = "pattern"
    /\ \E n \in 1..MaxTreeNodes : \E h \in Trees(n) : \E l \in Labellings(n) :
          /\ tokens' = 1..n
          /\ head' = h
          /\ pos_' = [t \in 1..n |-> l[t].pos]
          /\ dep_' = [t \in 1..n |-> l[t].dep]
          /\ lemma_' = [t \in 1..n |-> l[t].lemma]
          /\ lower_' = PlainLower(n)
    /\ pc' = "reread"
    /\ UNCHANGED <<sents, rel, rel_sentence, pattern, matches, filenames,
                   file_idx, relationships>>

NextReuse ==
    \/ \E token1 \in tokens, token2 \in tokens : NewRelationship(token1, token2)
    \/ ExtractPattern
    \/ ReadSentence
    \/ SearchExtracted

SpecReuse == InitMatch /\ [][NextReuse]_vars

-----------------------------------------------------------------------------
(* The corpus scan: search_files_for_relationships *)

\* the entities of the main program, {"lower": "Balderton"} and
\* {"lower": "startup"}, each name shortened to its first letter
entity1 == [lower |-> <<"B">>]
entity2 == [lower |-> <<"s">>]

\* str.lower(), one character at a time
lower(str) == [i \in 1..Len(str) |-> IF str[i] = "B" THEN "b" ELSE str[i]]

\* v in text: v occurs in text as a substring
IsIn(v, text) ==
    \E i \in 1..(Len(text) - Len(v) + 1) : SubSeq(text, i, i + Len(v) - 1) = v

\* all(v.lower() in getattr(token, k + "_").lower() for k, v in entity.items())
is_instance(token, entity) ==
    \A k \in DOMAIN entity : IsIn(lower(entity[k]), lower(lower_[token]))

entity_instances(sentence, entity) ==
    SelectSeq(sentence, LAMBDA token : is_instance(token, entity))

\* itertools.product(entity1_instances, entity2_instances)
product(xs, ys) ==
    [i \in 1..(Len(xs) * Len(ys)) |->
        <<xs[((i - 1) \div Len(ys)) + 1], ys[((i - 1) % Len(ys)) + 1]>>]

entity_pairs(sentence) ==
    product(entity_instances(sentence, entity1), entity_instances(sentence, entity2))

\* [(Relationship(pair[0], pair[1]), sentence) for pair in entity_pairs]
sentence_relationships(sentence) ==
    LET pairs == entity_pairs(sentence)
    IN  [i \in 1..Len(pairs) |->
            [relationship |-> Relationship(pairs[i][1], pairs[i][2]),
             sentence |-> sentence]]

Raises(found) == \E i \in 1..Len(found) : found[i].relationship.status # "ok"

\* the sentences of the document up to the first whose comprehension raises
RECURSIVE scan_sentences(_, _)
scan_sentences(todo, acc) ==
    IF todo = <<>> THEN [raised |-> FALSE, relationships |-> acc]
    ELSE LET found == sentence_relationships(Head(todo))
         IN  IF Raises(found) THEN [raised |-> TRUE, relationships |-> acc]
             ELSE scan_sentences(Tail(todo), acc \o found)

\* stdout[:-1].split("\n"): one name per line found, one empty name when none
split_names(k) == IF k = 0 THEN <<"">> ELSE [i \in 1..k |-> "file"]

\* the texts a token can have
Texts == {<<"b">>, <<"s">>, <<"b", "s">>}

\* doc.sents: the document cut into spans after the positions in cuts
Spans(cuts, n) ==
    LET starts == {1} \cup {c + 1 : c \in cuts}
        nth(i) == CHOOSE st \in starts : Cardinality({x \in starts : x < st}) = i - 1
        last(i) == IF i = Cardinality(starts) THEN n ELSE nth(i + 1) - 1
    IN  [i \in 1..Cardinality(starts) |->
            [j \in 1..(last(i) - nth(i) + 1) |-> nth(i) + j - 1]]

InitScan ==
    /\ tokens = {}
    /\ head = <<>>
    /\ pos_ = <<>>
    /\ dep_ = <<>>
    /\ lemma_ = <<>>
    /\ lower_ = <<>>
    /\ sents = <<>>
    /\ rel = NoRel
    /\ rel_sentence = NoParse
    /\ pattern = NoPattern
    /\ matches = 0
    /\ \E k \in 0..MaxFiles : filenames = split_names(k)
    /\ file_idx = 0
    /\ relationships = <<>>
    /\ pc = "scanning"

\* open(filename): the name the empty output leaves does not exist
OpenFails ==
    /\ pc = "scanning"
    /\ file_idx < Len(filenames)
    /\ filenames[file_idx + 1] = ""
    /\ pc' = "FileNotFoundError"
    /\ UNCHANGED <<tokens, head, pos_, dep_, lemma_, lower_, sents, rel,
                   rel_sentence, pattern, matches, filenames, file_idx,
                   relationships>>

\* with open(filename) ... doc = get_spacy_text(text), entities merged: the
\* parse of the next file
ReadFile ==
    /\ pc = "scanning"
    /\ file_idx < Len(filenames)
    /\ filenames[file_idx + 1] # ""
    /\ \E n \in 1..MaxDocTokens : \E h \in Forests(n) :
       \E text \in [1..n -> Texts] : \E cuts \in SUBSET (1..(n - 1)) :
          /\ tokens' = 1..n
          /\ head' = h
          /\ pos_' = PlainPos(h, n)
          /\ dep_' = PlainDep(h, n)
          /\ lemma_' = PlainLemma(h, n)
          /\ lower_' = text
          /\ sents' = Spans(cuts, n)
    /\ pc' = "in file"
    /\ UNCHANGED <<rel, rel_sentence, pattern, matches, filenames, file_idx,
                   relationships>>

\* for sentence in doc.sents: collect the relationships of every sentence; an
\* exception leaves the function
ScanSentences ==
    /\ pc = "in file"
    /\ LET scanned == scan_sentences(sents, <<>>)
       IN  /\ relationships' = relationships \o scanned.relationships
           /\ pc' = IF scanned.raised THEN "ValueError" ELSE "scanning"
           /\ file_idx' = IF scanned.raised THEN file_idx ELSE file_idx + 1
    /\ UNCHANGED <<tokens, head, pos_, dep_, lemma_, lower_, sents, rel,
                   rel_sentence, pattern, matches, filenames>>

\* return(relationships)
Return ==
    /\ pc = "scanning"
    /\ file_idx = Len(filenames)
    /\ pc' = "returned"
    /\ UNCHANGED <<tokens, head, pos_, dep_, lemma_, lower_, sents, rel,
                   rel_sentence, pattern, matches, filenames, file_idx,
                   relationships>>

NextScan == OpenFails \/ ReadFile \/ ScanSentences \/ Return

SpecScan == InitScan /\ [][NextScan]_vars

-----------------------------------------------------------------------------
(* Properties of Relationship *)

\* x is t or an ancestor of t, read off the head function
RECURSIVE AncestorOrSelf(_, _)
AncestorOrSelf(x, t) == x = t \/ (head[t] # t /\ AncestorOrSelf(x, head[t]))

CommonAncestor(x, a, b) == AncestorOrSelf(x, a) /\ AncestorOrSelf(x, b)

SameTree(a, b) == \E x \in tokens : CommonAncestor(x, a, b)

Attempted == rel.status # "none"

Built == rel.status = "ok"

\* C1: the fork node of Relationship(a, b) is an ancestor of both a and b, and
\* no descendant of the fork node is also a common ancestor of a and b.
C1_ForkIsLowestCommonAncestor ==
    Built =>
        LET fork == forking_node(rel)
        IN  /\ CommonAncestor(fork, rel.token1, rel.token2)
            /\ \A d \in tokens :
                  (d # fork /\ AncestorOrSelf(fork, d))
                      => ~CommonAncestor(d, rel.token1, rel.token2)

\* the fork is neither the root nor one of the two tokens
C1_Witness ==
    /\ Built
    /\ head[forking_node(rel)] # forking_node(rel)
    /\ forking_node(rel) \notin {rel.token1, rel.token2}
    /\ rel.token1 # rel.token2

\* C5: Relationship(a, b) and Relationship(b, a) have the same fork node and
\* common-ancestor chain, and the branches of one are those of the other swapped.
C5_Symmetry ==
    Built =>
        LET back == Relationship(rel.token2, rel.token1)
        IN  /\ back.status = "ok"
            /\ back.common_ancestors = rel.common_ancestors
            /\ forking_node(back) = forking_node(rel)
            /\ back.branch1 = rel.branch2
            /\ back.branch2 = rel.branch1

\* two branches of different, non-zero lengths
C5_Witness ==
    /\ Built
    /\ Len(rel.branch1) >= 1
    /\ Len(rel.branch2) > Len(rel.branch1)

\* a branch is a chain of children hanging from the fork and ending at t
DescendsTo(fork, br, t) ==
    /\ \A i \in 1..Len(br) :
          /\ br[i] # fork
          /\ head[br[i]] = (IF i = 1 THEN fork ELSE br[i - 1])
          /\ head[br[i]] # br[i]
    /\ (IF br = <<>> THEN fork ELSE br[Len(br)]) = t

\* C6: branch1 reversed, the fork node, then branch2 is a connected path from a
\* to b: each branch is in root-to-leaf order, starts at a child of the fork,
\* continues child by child, ends at its token, and does not hold the fork.
C6_BranchesFormPath ==
    Built =>
        /\ DescendsTo(forking_node(rel), rel.branch1, rel.token1)
        /\ DescendsTo(forking_node(rel), rel.branch2, rel.token2)

\* one branch of two nodes, the other not empty
C6_Witness ==
    /\ Built
    /\ Len(rel.branch1) >= 2
    /\ Len(rel.branch2) >= 1

\* C9: for two tokens whose ancestor chains share no node, construction fails
\* with the ValueError "unrelated tokens" and nothing else; for two tokens of
\* the same tree it never fails.
C9_UnrelatedFailsRelatedSucceeds ==
    Attempted =>
        IF SameTree(rel.token1, rel.token2)
        THEN rel.status = "ok"
        ELSE rel.status = "ValueError" /\ rel.message = "unrelated"

\* a construction that failed on tokens of two trees
C9_Witness ==
    /\ Attempted
    /\ ~SameTree(rel.token1, rel.token2)
    /\ rel.status = "ValueError"

-----------------------------------------------------------------------------
(* Properties of extraction and matching *)

Searched == pc = "searched"

\* the pattern in hand was extracted from rel
Extracted == pc \in {"pattern", "reread", "searched"} /\ Built

\* the {pos, dep} of these nodes in the sentence the Relationship came from
OwnSpec(nodes) == [i \in 1..Len(nodes) |->
                      [pos |-> rel_sentence.pos_[nodes[i]],
                       dep |-> rel_sentence.dep_[nodes[i]]]]

\* C2: the pattern's fork spec is the {pos, lemma} of the fork node, its
\* branch1 spec the {pos, dep} of the nodes of branch1 in order, and its
\* branch2 spec the {pos, dep} of the nodes of branch2 in order.
C2_EachBranchFromItsOwnPath ==
    Extracted =>
        /\ pattern.common_ancestor =
              [pos |-> rel_sentence.pos_[forking_node(rel)],
               lemma |-> rel_sentence.lemma_[forking_node(rel)]]
        /\ pattern.branch1 = OwnSpec(rel.branch1)
        /\ pattern.branch2 = OwnSpec(rel.branch2)

\* the downward paths from node whose successive nodes match spec step by step
RECURSIVE DownPaths(_, _)
DownPaths(node, spec) ==
    IF spec = <<>> THEN {<<>>}
    ELSE UNION {{<<c>> \o p : p \in DownPaths(c, Tail(spec))} :
                   c \in {t \in tokens : /\ t # node
                                         /\ head[t] = node
                                         /\ pos_[t] = spec[1].pos
                                         /\ dep_[t] = spec[1].dep}}

Forks(spec) ==
    {f \in tokens : /\ AncestorOrSelf(sentence_root, f)
                    /\ pos_[f] = spec.pos
                    /\ lemma_[f] = spec.lemma}

Combinations(pat) ==
    UNION {{<<f, p1, p2>> : p1 \in DownPaths(f, pat.branch1),
                             p2 \in DownPaths(f, pat.branch2)} :
              f \in Forks(pat.common_ancestor)}

\* C3: the result is the number of distinct (fork, branch1-path, branch2-path)
\* combinations satisfying the pattern, forks nested below other forks included.
C3_CountsCombinations ==
    Searched => matches = Cardinality(Combinations(pattern))

\* two forks, one below the other, each with its own combinations
C3_Witness ==
    /\ Searched
    /\ \E f \in Forks(pattern.common_ancestor), g \in Forks(pattern.common_ancestor) :
          /\ f # g
          /\ AncestorOrSelf(f, g)
          /\ DownPaths(f, pattern.branch1) # {}
          /\ DownPaths(f, pattern.branch2) # {}
          /\ DownPaths(g, pattern.branch1) # {}
          /\ DownPaths(g, pattern.branch2) # {}
    /\ pattern.branch1 # pattern.branch2
    /\ matches >= 2

\* C4: the pattern extracted from Relationship(a, b) matches the sentence it
\* was extracted from at least once.
C4_SelfMatch ==
    (Searched /\ Built) => matches >= 1

\* both branches are non-empty and the fork is below the root
C4_Witness ==
    /\ Searched
    /\ Built
    /\ rel.branch1 # <<>>
    /\ rel.branch2 # <<>>
    /\ forking_node(rel) # sentence_root

SingleNode == Cardinality(tokens) = 1

\* C8 as stated: on a sentence of a single node the result is 0.
C8_SingleNodeIsZero ==
    (Searched /\ SingleNode) => matches = 0

\* C8, amended: on a sentence of a single node the result is 1 when both
\* branch specs are empty and the node matches the common-ancestor spec, and
\* 0 otherwise.
C8_SingleNodeZeroUnlessTrivial ==
    (Searched /\ SingleNode) =>
        matches = (IF /\ pattern.branch1 = <<>>
                      /\ pattern.branch2 = <<>>
                      /\ pos_[sentence_root] = pattern.common_ancestor.pos
                      /\ lemma_[sentence_root] = pattern.common_ancestor.lemma
                   THEN 1 ELSE 0)

\* the root matches and one branch spec is not empty
C8_Witness ==
    /\ Searched
    /\ SingleNode
    /\ pos_[sentence_root] = pattern.common_ancestor.pos
    /\ lemma_[sentence_root] = pattern.common_ancestor.lemma
    /\ pattern.branch1 = <<>>
    /\ pattern.branch2 # <<>>
    /\ matches = 0

\* the sentence of the scenario: a VERB/raise root with the children
\* A (NOUN, nsubj) and B (NOUN, dobj), and the Relationship of A and B
ScenarioRelationship ==
    /\ Built
    /\ rel_sentence.tokens = 1..3
    /\ rel_sentence.head = <<1, 1, 1>>
    /\ rel_sentence.pos_ = <<"VERB", "NOUN", "NOUN">>
    /\ rel_sentence.dep_ = <<"ROOT", "nsubj", "dobj">>
    /\ rel_sentence.lemma_[1] = "raise"
    /\ rel.token1 = 2
    /\ rel.token2 = 3

\* the sentence being searched: a VERB root with this lemma whose children
\* are NOUNs with these dependency labels, in any order
RootWithNouns(lemma, deps) ==
    /\ tokens = 1..(Len(deps) + 1)
    /\ \A t \in tokens : head[t] = 1
    /\ pos_[1] = "VERB"
    /\ lemma_[1] = lemma
    /\ \A t \in tokens \ {1} : pos_[t] = "NOUN"
    /\ \A d \in {"nsubj", "dobj"} :
          Cardinality({t \in tokens \ {1} : dep_[t] = d})
              = Cardinality({i \in 1..Len(deps) : deps[i] = d})

\* C7: the pattern extracted from the scenario's Relationship counts 2 on a
\* VERB/raise root with one NOUN/nsubj and two NOUN/dobj children, 1 on a
\* sentence of the scenario's shape, and 0 when the root's lemma differs.
C7_ScenarioCounts ==
    (Searched /\ ScenarioRelationship) =>
        /\ RootWithNouns("raise", <<"nsubj", "dobj", "dobj">>) => matches = 2
        /\ RootWithNouns("raise", <<"nsubj", "dobj">>) => matches = 1
        /\ RootWithNouns("fall", <<"nsubj", "dobj">>) => matches = 0

-----------------------------------------------------------------------------
(* Properties of the corpus scan *)

\* C10: a pair whose Relationship fails is skipped and the scan goes on: the
\* failure never ends the scan, which reads every file and returns.
C10_FailedPairDoesNotEndScan ==
    pc # "ValueError"

====
